---- MODULE Spec2Model ----
(***************************************************************************)
(* Media-Processor-Microservice: the video enhancement job                 *)
(* (video_enhancement/Video.py), the video stitcher (Video_stitch/Video.py)*)
(* and the single-image job (Image/Image.py), as app.py drives them: one   *)
(* request at a time on module-level processor instances.                  *)
(*                                                                         *)
(* A frame is its position in the source (src) and its mean lightness.     *)
(* Correction factors are exact rationals <<num, den>> in lowest terms.    *)
(***************************************************************************)
EXTENDS Integers, Sequences, FiniteSets, TLC

\* ---------------------------------------------------------------- bounds
MaxFrames == 3
MaxCalls == 7
MaxVideos == 2
MaxStitchFrames == 2
MaxLongFrames == 100
MaxRequests == 2
MaxStitchVideos == 3
MaxTaskFrames == 3

\* ------------------------------------------------------ program constants
BRIGHTNESS_LOW_THRESHOLD == 80
BRIGHTNESS_HIGH_THRESHOLD == 200
IMAGE_BRIGHTNESS_HIGH_THRESHOLD == 130
TARGET_BRIGHTNESS == 127
SMOOTHING_WINDOW == 5
TRANSITION_FRAMES == 30
PROGRESS_EVERY == 100
STITCH_PROGRESS_EVERY == 30

\* Mean lightness values a decoded video frame may have: a black frame, the
\* spec's examples (50, 127, 220) and both thresholds.
VideoBrightness == {0, 50, 80, 127, 200, 220}

\* Mean lightness values a decoded still image may have: a black image, the
\* image thresholds 80 and 130, the spec's examples, and two over-exposed values.
ImageBrightness == {0, 50, 80, 127, 130, 131, 220}

\* Means of the HSV value channel a decoded still image may have.
ImageValues == {0, 1, 140, 255}

\* What CAP_PROP_FRAME_COUNT may report: nothing, or fewer frames than are read.
ReportedTotals == {0, 1}

\* Raw factors fed to the smoother when it is driven on its own.
SmoothInputs == {<<1, 1>>, <<2, 1>>}

\* Where an exception may be raised while one frame is processed.
FrameFaults == {"none", "analyze", "correct_pre", "correct_post", "watermark"}

\* Where process_videos may raise while one frame is stitched.
StitchFaults == {"none", "resize", "fade", "watermark"}

\* Where adjust_brightness may raise.
ImageFaults == {"none", "analyze", "correct", "verify"}

\* cv2.imwrite: stores the image, returns False, or raises.
ImwriteOutcomes == {"ok", "false", "raise"}

\* A handle whose release() raises whenever it is called.
ReleaseFaults == {"ok", "cap_raises", "out_raises"}

\* ------------------------------------------------------------- rationals
RECURSIVE Gcd(_, _)
Gcd(a, b) == IF b = 0 THEN a ELSE Gcd(b, a % b)

Norm(r) ==
    LET g == Gcd(r[1], r[2]) IN
    IF g = 0 THEN r ELSE <<r[1] \div g, r[2] \div g>>

\* <<1, 0>> is the float inf a division by a zero np.float64 yields.
RAdd(r, s) ==
    IF r[2] = 0 \/ s[2] = 0 THEN <<1, 0>>
    ELSE LET g == Gcd(r[2], s[2])
             l == (r[2] \div g) * s[2]
         IN Norm(<<r[1] * (l \div r[2]) + s[1] * (l \div s[2]), l>>)

RECURSIVE RSum(_)
RSum(s) == IF s = <<>> THEN <<0, 1>> ELSE RAdd(Head(s), RSum(Tail(s)))

\* np.mean of a non-empty list
Mean(s) == LET t == RSum(s) IN Norm(<<t[1], t[2] * Len(s)>>)

\* ------------------------------------------------------- pure functions
\* Route with both comparisons made inclusive.
RouteInclusive(b, low, high) ==
    IF b <= low THEN "dark"
    ELSE IF b >= high THEN "bright"
    ELSE "optimize"

\* Route with the dark and the bright branch exchanged.
RouteSwapped(b, low, high) ==
    IF b < low THEN "bright"
    ELSE IF b > high THEN "dark"
    ELSE "optimize"

\* The three-way branch of process_video / adjust_brightness.
Route(b, low, high) ==
    IF b < low THEN "dark"
    ELSE IF b > high THEN "bright"
    ELSE "optimize"

\* The division turned over: current_brightness / TARGET_BRIGHTNESS.
ReductionFactorInverted(b) == Norm(<<b, TARGET_BRIGHTNESS>>)

\* reduction_factor = TARGET_BRIGHTNESS / current_brightness
ReductionFactor(b) == Norm(<<TARGET_BRIGHTNESS, b>>)

\* The smoother without its eviction.
SmoothedHistoryNoEvict(hist, f) == Append(hist, f)

\* The smoother evicting one entry too early.
SmoothedHistoryEarlyEvict(hist, f) ==
    LET appended == Append(hist, f) IN
    IF Len(appended) >= SMOOTHING_WINDOW THEN Tail(appended) ELSE appended

\* _get_smoothed_adjustment: append, evict the oldest past the window, mean.
SmoothedHistory(hist, f) ==
    LET appended == Append(hist, f) IN
    IF Len(appended) > SMOOTHING_WINDOW THEN Tail(appended) ELSE appended

GetSmoothedAdjustment(hist, f) == Mean(SmoothedHistory(hist, f))

\* cvtColor of one image to LAB and to HSV: the value channel of a pixel is its
\* largest colour channel, so a value mean of 0 is a black image, whose
\* lightness mean is 0.
HsvConsistent(b, v) == (v = 0) => (b = 0)

\* ------------------------------------------------------------------ state
VARIABLES
    previous_adjustments, \* VideoProcessor.previous_adjustments
    op,                   \* the operation in progress or last returned
    pc,                   \* "idle", "loop", "s_next", "s_loop", "returned"
    caps,                 \* every VideoCapture the job created, in order
    out,                  \* the job's VideoWriter handle
    sinkOk,               \* whether the VideoWriter / imwrite can store frames
    nread,                \* frames the current source has delivered
    frame_count,          \* the local frame_count
    total_frames,         \* the local total_frames
    written,              \* the frames stored in the output, in order
    calls,                \* this job's smoother calls: frame, raw, smoothed
    divisors,             \* current_brightness of each bright-strategy division
    lastRoute,            \* <<mean_brightness, strategy>> of the last frame routed
    routes,               \* the strategy chosen for each frame of this video job
    faulted,              \* where this job raised while processing a frame
    openFailed,           \* an input source of this job could not be opened
    result,               \* what the operation handed to its caller
    stale,                \* the job was entered with a non-empty history
    total_videos,         \* len(video_paths)
    video_index,          \* videos of video_paths already taken
    last_frame,           \* the stitcher's last_frame (a frame) or <<>>
    reads,                \* per video of video_paths taken: the frames it delivered
    response,             \* what the request handler answered for this job
    wmShape,              \* <<width, height>> of a frame given to add_mansio_watermark
    wmRect,               \* the rectangle add_mansio_watermark drew for it, or <<>>
    tasks,                \* per request of the event loop: its position and factors
    loopOwner,            \* the request the event loop is running, or 0
    rsArgs,               \* resize_frame's <<frame width, frame height, target width,
                          \* target height>>, or <<>>
    rsResult              \* what resize_frame computed for them, or <<>>

vars == <<previous_adjustments, op, pc, caps, out, sinkOk, nread, frame_count, total_frames,
          written, calls, divisors, lastRoute, routes, faulted, openFailed, result, stale,
          total_videos, video_index, last_frame, reads, response, wmShape, wmRect,
          tasks, loopOwner, rsArgs, rsResult>>

\* What the three operations leave alone.
auxVars == <<wmShape, wmRect, tasks, loopOwner, rsArgs, rsResult>>

\* Everything but wmRect.
wmFrame == <<previous_adjustments, op, pc, caps, out, sinkOk, nread, frame_count,
             total_frames, written, calls, divisors, lastRoute, routes, faulted,
             openFailed, result, stale, total_videos, video_index, last_frame, reads, response,
             wmShape, tasks, loopOwner, rsArgs, rsResult>>

\* Everything but previous_adjustments, tasks and loopOwner.
taskFrame == <<op, pc, caps, out, sinkOk, nread, frame_count, total_frames, written,
               calls, divisors, lastRoute, routes, faulted, openFailed, result, stale,
               total_videos, video_index, last_frame, reads, response, wmShape, wmRect,
               rsArgs, rsResult>>

\* Everything but rsResult.
rsFrame == <<previous_adjustments, op, pc, caps, out, sinkOk, nread, frame_count,
             total_frames, written, calls, divisors, lastRoute, routes, faulted,
             openFailed, result, stale, total_videos, video_index, last_frame, reads,
             response, wmShape, wmRect, tasks, loopOwner, rsArgs>>

Requests == 1..MaxRequests

jobVars == <<divisors, caps, out, sinkOk, nread, frame_count, total_frames, written, faulted,
             openFailed, result, total_videos, video_index, last_frame, reads>>

stitchVars == <<total_videos, video_index, last_frame, reads>>

NoResult == [kind |-> "none", success |-> FALSE, msg |-> "", count |-> 0]

Returned(success, msg, count) ==
    [kind |-> "returned", success |-> success, msg |-> msg, count |-> count]

Raised == [kind |-> "raised", success |-> FALSE, msg |-> "", count |-> 0]

\* status is the HTTP status answered, chosen the status of the HTTPException
\* raised inside the handler's try block (0: none was raised there).
NoResponse == [status |-> 0, output |-> "absent", chosen |-> 0]

JobInit ==
    /\ previous_adjustments = <<>>
    /\ op = "none"
    /\ pc = "idle"
    /\ caps = <<>>
    /\ out = "none"
    /\ sinkOk = TRUE
    /\ nread = 0
    /\ frame_count = 0
    /\ total_frames = 0
    /\ written = <<>>
    /\ calls = <<>>
    /\ divisors = <<>>
    /\ lastRoute = <<>>
    /\ routes = <<>>
    /\ faulted = "none"
    /\ openFailed = FALSE
    /\ result = NoResult
    /\ stale = FALSE
    /\ total_videos = 0
    /\ video_index = 0
    /\ last_frame = <<>>
    /\ reads = <<>>
    /\ response = NoResponse

Init ==
    /\ JobInit
    /\ wmShape = <<>>
    /\ wmRect = <<>>
    /\ tasks = [r \in Requests |-> [pc |-> "waiting", raws |-> <<>>]]
    /\ loopOwner = 0
    /\ rsArgs = <<>>
    /\ rsResult = <<>>
    /\ rsArgs = <<>>
    /\ rsResult = <<>>

\* No operation is running and no handler is waiting to answer: a request
\* enters its operation only after the one before it was answered.
Idle == pc \in {"idle", "responded"}

\* ------------------------------------------------------------- resources
ReleaseLast(cs) == [cs EXCEPT ![Len(cs)] = "released"]

\* A finally block that releases the writer only.
FinallyWriterOnly(cs, o, rel) ==
    LET outRaises == o = "open" /\ rel = "out_raises"
    IN [caps |-> cs,
        out |-> IF o # "none" /\ ~outRaises THEN "released" ELSE o,
        raised |-> outRaises]

\* The finally block of process_video / process_videos: release the capture
\* bound to `cap` when one is bound, then the writer when one is bound.  A
\* release() that raises leaves the block at once; releasing a handle that is
\* not open does nothing.
Finally(cs, o, rel) ==
    LET capRaises == cs # <<>> /\ cs[Len(cs)] = "open" /\ rel = "cap_raises"
        outRuns == ~capRaises /\ o # "none"
        outRaises == outRuns /\ o = "open" /\ rel = "out_raises"
    IN [caps |-> IF cs # <<>> /\ ~capRaises THEN ReleaseLast(cs) ELSE cs,
        out |-> IF outRuns /\ ~outRaises THEN "released" ELSE o,
        raised |-> capRaises \/ outRaises]

\* What the caller gets: the pending return value, unless finally raised.
Outcome(pending, fin) == IF fin.raised THEN Raised ELSE pending

\* progress = (frame_count / total_frames) * 100, computed every `every` frames:
\* whether the division raises ZeroDivisionError.
ProgressRaises(count, total, every) == count % every = 0 /\ total = 0

\* A writer that puts each frame in front of the ones it holds.
SinkWritePrepend(w, ok, f) == IF ok THEN <<f>> \o w ELSE w

\* out.write(frame): an unopened VideoWriter drops the frame silently.
SinkWrite(w, ok, f) == IF ok THEN Append(w, f) ELSE w

\* ------------------------------------------------------------------ frames
\* A frame is where it came from (src), the strategy or resize applied to it,
\* the operations applied to its pixels in order (ops) and, for a frame of a
\* fade, its index in the fade and the src of the frame it fades from.
Frame(src, strat, ops) ==
    [src |-> src, strat |-> strat, ops |-> ops, fade |-> -1, from |-> <<>>]

\* add_mansio_watermark drawing on the frame it was given.
AddMansioWatermarkInPlace(frame) ==
    LET marked == [frame EXCEPT !.ops = Append(@, "watermark")]
    IN [output |-> marked, input |-> marked]

\* add_mansio_watermark: output = frame.copy(), the overlay and the text are
\* drawn on output.  `input` is the caller's frame after the call.
AddMansioWatermark(frame) ==
    [output |-> [frame EXCEPT !.ops = Append(@, "watermark")], input |-> frame]

\* How many times the watermark was drawn on the pixels of a frame.
Watermarks(frame) == Len(SelectSeq(frame.ops, LAMBDA o : o = "watermark"))

\* ------------------------------------------------ VideoProcessor.process_video
\* process_video without the reset of the history.
KeepAdjustments == previous_adjustments

\* self.previous_adjustments = []
ResetAdjustments == <<>>

\* The smoother reached on every strategy's path.
SmootherRunsAlways(strat, fault) ==
    fault \in {"none", "correct_post", "watermark"}

\* Whether _reduce_brightness reaches self._get_smoothed_adjustment.
SmootherRuns(strat, fault) ==
    strat = "bright" /\ fault \in {"none", "correct_post", "watermark"}

\* The frame written when the watermark is drawn before the correction.
VideoFrameOutMarkedFirst(id, strat) ==
    LET marked == AddMansioWatermark(Frame(<<1, id>>, strat, <<>>)).output
    IN [marked EXCEPT !.ops = Append(@, strat)]

\* processed_frame = the strategy applied to frame; watermarked_frame =
\* add_mansio_watermark(processed_frame); out.write(watermarked_frame)
VideoFrameOut(id, strat) ==
    AddMansioWatermark(Frame(<<1, id>>, strat, <<strat>>)).output

\* cap = VideoCapture(...); the early return; the writer; the resets.
VideoStart ==
    /\ UNCHANGED auxVars
    /\ response' = NoResponse
    /\ Idle
    /\ \E opens \in BOOLEAN, sok \in BOOLEAN, tf \in ReportedTotals :
        /\ op' = "video"
        /\ stale' = (previous_adjustments # <<>>)
        /\ nread' = 0
        /\ frame_count' = 0
        /\ written' = <<>>
        /\ calls' = <<>>
        /\ divisors' = <<>>
        /\ lastRoute' = <<>>
        /\ routes' = <<>>
        /\ faulted' = "none"
        /\ total_videos' = 0
        /\ video_index' = 0
        /\ last_frame' = <<>>
        /\ reads' = <<>>
        /\ IF opens
           THEN /\ caps' = <<"open">>
                /\ out' = "open"
                /\ sinkOk' = sok
                /\ total_frames' = tf
                /\ openFailed' = FALSE
                /\ previous_adjustments' = ResetAdjustments
                /\ result' = NoResult
                /\ pc' = "loop"
           ELSE LET fin == Finally(<<"unopened">>, "none", "ok") IN
                /\ sok
                /\ tf = 0
                /\ total_frames' = 0
                /\ caps' = fin.caps
                /\ out' = fin.out
                /\ sinkOk' = TRUE
                /\ openFailed' = TRUE
                /\ UNCHANGED previous_adjustments
                /\ result' = Outcome(Returned(FALSE, "Failed to open video file", 0), fin)
                /\ pc' = "returned"

\* One pass of the while loop with ret = True, for a frame whose lightness is
\* in bs, raising at one of faults, on a source of at most limit frames.
VideoFrameOf(bs, faults, limit) ==
    /\ UNCHANGED <<auxVars, response>>
    /\ op = "video"
    /\ pc = "loop"
    /\ nread < limit
    /\ \E b \in bs, fault \in faults, rel \in ReleaseFaults :
        LET id == nread + 1
            strat == Route(b, BRIGHTNESS_LOW_THRESHOLD, BRIGHTNESS_HIGH_THRESHOLD)
            raw == ReductionFactor(b)
            smooths == fault # "analyze" /\ SmootherRuns(strat, fault)
            hist == IF smooths
                    THEN SmoothedHistory(previous_adjustments, raw)
                    ELSE previous_adjustments
            fin == Finally(caps, out, rel)
        IN
        /\ nread' = id
        /\ previous_adjustments' = hist
        /\ calls' = IF smooths
                    THEN Append(calls, [frame |-> id, raw |-> raw,
                           smoothed |-> GetSmoothedAdjustment(previous_adjustments, raw)])
                    ELSE calls
        /\ divisors' = IF smooths THEN Append(divisors, b) ELSE divisors
        /\ lastRoute' = IF fault = "analyze" THEN lastRoute ELSE <<b, strat>>
        /\ routes' = IF fault = "analyze" THEN routes ELSE Append(routes, strat)
        /\ UNCHANGED <<op, sinkOk, total_frames, openFailed, stale, stitchVars>>
        /\ IF fault = "none"
           THEN /\ written' = SinkWrite(written, sinkOk, VideoFrameOut(id, strat))
                /\ frame_count' = frame_count + 1
                /\ IF ProgressRaises(frame_count + 1, total_frames, PROGRESS_EVERY)
                   THEN /\ faulted' = "progress"
                        /\ caps' = fin.caps
                        /\ out' = fin.out
                        /\ result' = Outcome(Returned(FALSE, "error", 0), fin)
                        /\ pc' = "returned"
                   ELSE /\ rel = "ok"
                        /\ UNCHANGED <<caps, out, faulted, result, pc>>
           ELSE /\ faulted' = fault
                /\ caps' = fin.caps
                /\ out' = fin.out
                /\ result' = Outcome(Returned(FALSE, "error", 0), fin)
                /\ pc' = "returned"
                /\ UNCHANGED <<written, frame_count>>

VideoFrame == VideoFrameOf(VideoBrightness, FrameFaults, MaxFrames)

\* The loop without its exit: ret = False is met by another pass.
VideoEndNoBreak ==
    /\ op = "video"
    /\ pc = "loop"
    /\ UNCHANGED vars

\* ret = False: leave the loop, release both handles, return.
VideoEnd ==
    /\ UNCHANGED <<auxVars, response>>
    /\ op = "video"
    /\ pc = "loop"
    /\ \E rel \in ReleaseFaults :
        LET tryRaises == rel # "ok"
            caps1 == IF rel = "cap_raises" THEN caps ELSE ReleaseLast(caps)
            out1 == IF rel = "ok" THEN "released" ELSE out
            pending == IF tryRaises
                       THEN Returned(FALSE, "error", 0)
                       ELSE Returned(TRUE, "processed", frame_count)
            fin == Finally(caps1, out1, rel)
        IN
        /\ caps' = fin.caps
        /\ out' = fin.out
        /\ result' = Outcome(pending, fin)
        /\ pc' = "returned"
        /\ UNCHANGED <<previous_adjustments, op, sinkOk, nread, frame_count, total_frames,
                       written, calls, divisors, lastRoute, routes, faulted, openFailed, stale,
                       stitchVars>>

\* ------------------------------------------------ VideoStitcher.process_videos
\* resized_frame = self.resize_frame(frame, target_size)
Resized(id) == Frame(id, "resize", <<"resize">>)

\* watermarked_frame = self.add_mansio_watermark(resized_frame)
StitchFrameOut(id) == AddMansioWatermark(Resized(id)).output

\* last_frame = resized_frame.copy(), taken after the watermark call.
LastFrameAfter(id) == AddMansioWatermark(Resized(id)).input

\* cv2.addWeighted(frame1, 1 - alpha, frame2, alpha, 0): the pixels of both
\* frames, whatever was drawn on frame1 included.
Blend(frame1, frame2, i) ==
    [frame2 EXCEPT !.ops = @ \o SelectSeq(frame1.ops, LAMBDA o : o = "watermark")
                             \o <<"fade">>,
                   !.fade = i,
                   !.from = frame1.src]

\* create_fade_transition(last_frame, resized_frame, n), each frame watermarked.
FadeFrames(from, id, n) ==
    [i \in 1..n |-> AddMansioWatermark(Blend(from, Resized(id), i - 1)).output]

\* for trans_frame in transition_frames: out.write(...)
RECURSIVE SinkWriteAll(_, _, _)
SinkWriteAll(w, ok, fs) ==
    IF fs = <<>> THEN w ELSE SinkWriteAll(SinkWrite(w, ok, Head(fs)), ok, Tail(fs))

\* A fade wherever a frame was written before.
FadeDueAlways(last, count) == last # <<>>

\* if last_frame is not None and frame_count == 0
FadeDue(last, count) == last # <<>> /\ count = 0

\* The emptiness test, the writer, last_frame = None, for at most maxn paths.
StitchStartOf(maxn) ==
    /\ UNCHANGED auxVars
    /\ response' = NoResponse
    /\ Idle
    /\ \E n \in 0..maxn, sok \in BOOLEAN :
        /\ op' = "stitch"
        /\ stale' = FALSE
        /\ nread' = 0
        /\ frame_count' = 0
        /\ written' = <<>>
        /\ calls' = <<>>
        /\ divisors' = <<>>
        /\ lastRoute' = <<>>
        /\ routes' = <<>>
        /\ faulted' = "none"
        /\ openFailed' = FALSE
        /\ caps' = <<>>
        /\ total_frames' = 0
        /\ total_videos' = n
        /\ video_index' = 0
        /\ last_frame' = <<>>
        /\ reads' = <<>>
        /\ UNCHANGED previous_adjustments
        /\ IF n = 0
           THEN /\ sok
                /\ out' = "none"
                /\ sinkOk' = TRUE
                /\ result' = Returned(FALSE, "No video paths provided", 0)
                /\ pc' = "returned"
           ELSE /\ out' = "open"
                /\ sinkOk' = sok
                /\ result' = NoResult
                /\ pc' = "s_next"

StitchStart == StitchStartOf(MaxVideos)

\* The head of the for loop: open the next video, or log and continue.
StitchOpen ==
    /\ UNCHANGED <<auxVars, response>>
    /\ op = "stitch"
    /\ pc = "s_next"
    /\ video_index < total_videos
    /\ \E opens \in BOOLEAN, tf \in ReportedTotals :
        IF opens
        THEN /\ caps' = Append(caps, "open")
             /\ frame_count' = 0
             /\ total_frames' = tf
             /\ nread' = 0
             /\ pc' = "s_loop"
             /\ UNCHANGED <<video_index, openFailed, reads>>
        ELSE /\ tf = 0
             /\ reads' = Append(reads, 0)
             /\ caps' = Append(caps, "unopened")
             /\ openFailed' = TRUE
             /\ video_index' = video_index + 1
             /\ UNCHANGED <<frame_count, total_frames, nread, pc>>
    /\ UNCHANGED <<previous_adjustments, op, out, sinkOk, written, calls, divisors, lastRoute, routes,
                   faulted, result, stale, total_videos, last_frame>>

\* One pass of the inner while loop with ret = True.
StitchFrame ==
    /\ UNCHANGED <<auxVars, response>>
    /\ op = "stitch"
    /\ pc = "s_loop"
    /\ nread < MaxStitchFrames
    /\ \E fault \in StitchFaults, rel \in ReleaseFaults :
        LET id == <<video_index + 1, nread + 1>>
            fades == FadeDue(last_frame, frame_count)
            afterFade == IF fades
                         THEN SinkWriteAll(written, sinkOk,
                                  FadeFrames(last_frame, id, TRANSITION_FRAMES))
                         ELSE written
            fin == Finally(caps, out, rel)
        IN
        /\ nread' = nread + 1
        /\ fault = "fade" => fades
        /\ UNCHANGED <<previous_adjustments, op, sinkOk, total_frames, calls, divisors, lastRoute,
                       routes, openFailed, stale, total_videos, video_index, reads>>
        /\ IF fault = "none"
           THEN /\ written' = SinkWrite(afterFade, sinkOk, StitchFrameOut(id))
                /\ last_frame' = LastFrameAfter(id)
                /\ frame_count' = frame_count + 1
                /\ IF ProgressRaises(frame_count + 1, total_frames, STITCH_PROGRESS_EVERY)
                   THEN /\ faulted' = "progress"
                        /\ caps' = fin.caps
                        /\ out' = fin.out
                        /\ result' = Outcome(Returned(FALSE, "error", 0), fin)
                        /\ pc' = "returned"
                   ELSE /\ rel = "ok"
                        /\ UNCHANGED <<caps, out, faulted, result, pc>>
           ELSE /\ written' = IF fault = "watermark" THEN afterFade ELSE written
                /\ faulted' = fault
                /\ caps' = fin.caps
                /\ out' = fin.out
                /\ result' = Outcome(Returned(FALSE, "error", 0), fin)
                /\ pc' = "returned"
                /\ UNCHANGED <<last_frame, frame_count>>

\* ret = False: break, cap.release(), next video.
StitchClose ==
    /\ UNCHANGED <<auxVars, response>>
    /\ op = "stitch"
    /\ pc = "s_loop"
    /\ \E rel \in {"ok", "cap_raises"} :
        LET fin == Finally(caps, out, rel) IN
        /\ UNCHANGED <<previous_adjustments, op, sinkOk, nread, frame_count, total_frames,
                       written, calls, divisors, lastRoute, routes, faulted, openFailed, stale,
                       total_videos, last_frame>>
        /\ IF rel = "ok"
           THEN /\ caps' = ReleaseLast(caps)
                /\ video_index' = video_index + 1
                /\ reads' = Append(reads, nread)
                /\ pc' = "s_next"
                /\ UNCHANGED <<out, result>>
           ELSE /\ caps' = fin.caps
                /\ out' = fin.out
                /\ result' = Outcome(Returned(FALSE, "error", 0), fin)
                /\ pc' = "returned"
                /\ UNCHANGED <<video_index, reads>>

\* The for loop is exhausted: out.release(), return, finally.
StitchFinish ==
    /\ UNCHANGED <<auxVars, response>>
    /\ op = "stitch"
    /\ pc = "s_next"
    /\ video_index = total_videos
    /\ \E rel \in {"ok", "out_raises"} :
        LET out1 == IF rel = "out_raises" THEN out ELSE "released"
            pending == IF rel = "out_raises"
                       THEN Returned(FALSE, "error", 0)
                       ELSE Returned(TRUE, "stitched", 0)
            fin == Finally(caps, out1, rel)
        IN
        /\ caps' = fin.caps
        /\ out' = fin.out
        /\ result' = Outcome(pending, fin)
        /\ pc' = "returned"
        /\ UNCHANGED <<previous_adjustments, op, sinkOk, nread, frame_count, total_frames,
                       written, calls, divisors, lastRoute, routes, faulted, openFailed, stale,
                       stitchVars>>

\* --------------------------------------------- ImageProcessor.adjust_brightness
\* processed_img: the strategy applied, nothing else.
ImageOut(strat) == Frame(<<1, 1>>, strat, <<strat>>)

ImageJob ==
    /\ UNCHANGED auxVars
    /\ response' = NoResponse
    /\ Idle
    /\ \E readable \in BOOLEAN, b \in ImageBrightness, v \in ImageValues,
          fault \in ImageFaults, wr \in ImwriteOutcomes :
        LET strat == Route(b, BRIGHTNESS_LOW_THRESHOLD, IMAGE_BRIGHTNESS_HIGH_THRESHOLD)
            routed == readable /\ fault # "analyze"
            writes == readable /\ fault = "none"
            divides == routed /\ strat = "bright" /\ fault # "correct"
        IN
        /\ HsvConsistent(b, v)
        /\ ~divides => v = 255
        /\ divisors' = IF divides THEN <<v>> ELSE <<>>
        /\ ~readable => (b = 50 /\ fault = "none" /\ wr = "ok")
        /\ fault = "analyze" => b = 50
        /\ fault # "none" => wr = "ok"
        /\ op' = "image"
        /\ pc' = "returned"
        /\ stale' = FALSE
        /\ nread' = IF readable THEN 1 ELSE 0
        /\ frame_count' = 0
        /\ total_frames' = 0
        /\ calls' = <<>>
        /\ caps' = <<>>
        /\ out' = "none"
        /\ openFailed' = ~readable
        /\ faulted' = IF readable THEN fault ELSE "none"
        /\ lastRoute' = IF routed THEN <<b, strat>> ELSE <<>>
        /\ routes' = <<>>
        /\ sinkOk' = (wr = "ok")
        /\ written' = IF writes /\ wr = "ok" THEN <<ImageOut(strat)>> ELSE <<>>
        /\ result' = IF ~readable THEN Returned(FALSE, "Failed to read image", 0)
                     ELSE IF fault # "none" \/ wr = "raise" THEN Returned(FALSE, "error", 0)
                     ELSE Returned(TRUE, "Image processed successfully", 0)
        /\ total_videos' = 0
        /\ video_index' = 0
        /\ last_frame' = <<>>
        /\ reads' = <<>>
        /\ UNCHANGED previous_adjustments

\* ------------------------------------------------------- the request handlers
\* os.path.exists(output_path) once the operation has come back: VideoWriter
\* creates the file when it opens, cv2.imwrite when it stores the image.
OutputExists ==
    IF op = "image" THEN written # <<>> ELSE out # "none" /\ sinkOk

\* except Exception as e: ... raise HTTPException(status_code=500, ...), which
\* also catches the HTTPException raised inside the try block.
ExceptStatus(chosen) == 500

\* The tail of enhance_video / enhance_image / stitch_videos: success is
\* answered with the output's URL; on (False, message) HTTPException(500) is
\* raised inside the try block; that and an exception of the operation reach
\* the except clause, which removes output_path.
Respond ==
    /\ pc = "returned"
    /\ op \in {"video", "stitch", "image"}
    /\ response' = IF result.kind = "returned" /\ result.success
                   THEN [status |-> 200,
                         output |-> IF OutputExists THEN "present" ELSE "absent",
                         chosen |-> 0]
                   ELSE LET chosen == IF result.kind = "returned" THEN 500 ELSE 0
                        IN [status |-> ExceptStatus(chosen),
                            output |-> IF OutputExists THEN "removed" ELSE "absent",
                            chosen |-> chosen]
    /\ pc' = "responded"
    /\ UNCHANGED <<previous_adjustments, op, caps, out, sinkOk, nread, frame_count,
                   total_frames, written, calls, divisors, lastRoute, routes, faulted,
                   openFailed, result, stale, stitchVars, auxVars>>

\* The head of the three handlers on a file name with an unsupported
\* extension: HTTPException(400) is raised inside the try block, before any
\* path is bound, and reaches the except clause.
Reject ==
    /\ Idle
    /\ op' = "rejected"
    /\ pc' = "responded"
    /\ response' = [status |-> ExceptStatus(400), output |-> "absent", chosen |-> 400]
    /\ stale' = FALSE
    /\ nread' = 0
    /\ frame_count' = 0
    /\ total_frames' = 0
    /\ written' = <<>>
    /\ calls' = <<>>
    /\ divisors' = <<>>
    /\ lastRoute' = <<>>
    /\ routes' = <<>>
    /\ faulted' = "none"
    /\ openFailed' = FALSE
    /\ caps' = <<>>
    /\ out' = "none"
    /\ sinkOk' = TRUE
    /\ result' = NoResult
    /\ total_videos' = 0
    /\ video_index' = 0
    /\ last_frame' = <<>>
    /\ reads' = <<>>
    /\ UNCHANGED <<previous_adjustments, auxVars>>

\* ------------------------------------------------------ add_mansio_watermark
\* Frame widths and heights from 64x64 to 4096x2160.
FrameWidths == {64, 320, 640, 1280, 1920, 4096}

FrameHeights == {64, 240, 480, 720, 1080, 2160}

\* cv2.getTextSize(text, FONT_HERSHEY_SIMPLEX, scale, thickness) as <<width,
\* height>>: "Mansio" at scale 1.5, the timestamp and the user line at 0.6.
MainTextSizes == {<<150, 30>>, <<180, 36>>}

InfoTextSizes == {<<250, 12>>, <<300, 16>>}

Max(a, b) == IF a >= b THEN a ELSE b

\* The corners handed to cv2.rectangle for a frame of the given shape.
OverlayRect(shape, main, time, user) ==
    LET padding == 20
        line_spacing == 5
        total_height == main[2] + time[2] + user[2] + 2 * line_spacing
        max_width == Max(main[1], Max(time[1], user[1]))
        x == shape[1] - max_width - 2 * padding
        y_bottom == shape[2] - padding
    IN [x1 |-> x - padding, y1 |-> y_bottom - total_height - 2 * padding,
        x2 |-> x + max_width + padding, y2 |-> y_bottom + padding]

\* add_mansio_watermark(frame) on a frame of shape wmShape.
AddWatermarkCall ==
    /\ wmShape # <<>>
    /\ wmRect = <<>>
    /\ \E main \in MainTextSizes, time \in InfoTextSizes, user \in InfoTextSizes :
        wmRect' = OverlayRect(wmShape, main, time, user)
    /\ UNCHANGED wmFrame

\* -------------------------------------------------- VideoStitcher.resize_frame
\* Frame shapes from one pixel wide or high to 4096x2160, and target sizes.
ResizeWidths == {1, 13, 64, 640, 1920, 4096}

ResizeHeights == {1, 45, 64, 480, 1088, 2160}

ResizeTargets == {<<64, 64>>, <<1280, 720>>, <<1920, 1080>>}

\* frame_aspect = frame.shape[1] / frame.shape[0] is exact as a float when
\* the reduced denominator is a power of two.
AspectExact(w, h) == \E k \in 0..12 : h \div Gcd(w, h) = 2 ^ k

\* int(x) of a float x computed from frame_aspect, whose exact value is
\* num / den: the floor; or one less when the exact value is an integer and
\* the rounded frame_aspect leaves the float just below it.
FloatInt(num, den, exact) ==
    {num \div den} \cup (IF num % den = 0 /\ ~exact THEN {(num \div den) - 1} ELSE {})

\* The sizes and paddings resize_frame computes, for a scaled side n.
ResizePlan(w, h, tw, th, n) ==
    IF w * th > h * tw
    THEN LET top == (th - n) \div 2 IN
         [new_width |-> tw, new_height |-> n,
          top |-> top, bottom |-> th - n - top, left |-> 0, right |-> 0]
    ELSE LET left == (tw - n) \div 2 IN
         [new_width |-> n, new_height |-> th,
          top |-> 0, bottom |-> 0, left |-> left, right |-> tw - n - left]

\* resize_frame(frame, target_width, target_height): cv2.resize raises on an
\* empty size; otherwise the padded frame has the content plus the borders.
ResizeCall ==
    /\ rsArgs # <<>>
    /\ rsResult = <<>>
    /\ LET w == rsArgs[1]
           h == rsArgs[2]
           tw == rsArgs[3]
           th == rsArgs[4]
       IN \E n \in IF w * th > h * tw
                     THEN FloatInt(tw * h, w, AspectExact(w, h))
                     ELSE FloatInt(th * w, h, AspectExact(w, h)) :
            LET plan == ResizePlan(w, h, tw, th, n)
                raised == plan.new_width <= 0 \/ plan.new_height <= 0
            IN rsResult' = [plan |-> plan, raised |-> raised,
                            width |-> IF raised THEN 0
                                      ELSE plan.new_width + plan.left + plan.right,
                            height |-> IF raised THEN 0
                                       ELSE plan.new_height + plan.top + plan.bottom]
    /\ UNCHANGED rsFrame

\* ------------------------------------- enhance_video requests on one event loop
\* Handler positions at which the handler would give the event loop away while
\* its job is between two frames.
AwaitsBetweenFrames == {"loop"}

\* Handler positions at which enhance_video awaits: the coroutine has no await
\* expression and calls process_video directly, so it keeps the event loop from
\* its first statement to its last.
AwaitPoints == {}

\* The event loop resumes request r: no request holds the loop, or r does.
CanRun(r) == loopOwner \in {0, r}

\* Who holds the event loop once r has moved to position p.
OwnerAfter(r, p) == IF p \in AwaitPoints \cup {"done"} THEN 0 ELSE r

\* Request r enters process_video on the shared video_processor.
TaskStart(r) ==
    /\ CanRun(r)
    /\ tasks[r].pc = "waiting"
    /\ previous_adjustments' = ResetAdjustments
    /\ tasks' = [tasks EXCEPT ![r] = [pc |-> "loop", raws |-> <<>>]]
    /\ loopOwner' = OwnerAfter(r, "loop")
    /\ UNCHANGED taskFrame

\* Request r's job corrects one over-exposed frame.
TaskFrame(r) ==
    /\ CanRun(r)
    /\ tasks[r].pc = "loop"
    /\ Len(tasks[r].raws) < MaxTaskFrames
    /\ \E b \in {220, 254} :
        /\ previous_adjustments' = SmoothedHistory(previous_adjustments, ReductionFactor(b))
        /\ tasks' = [tasks EXCEPT ![r].raws = Append(@, ReductionFactor(b))]
    /\ loopOwner' = OwnerAfter(r, "loop")
    /\ UNCHANGED taskFrame

\* Request r's job returns and the handler answers.
TaskEnd(r) ==
    /\ CanRun(r)
    /\ tasks[r].pc = "loop"
    /\ tasks' = [tasks EXCEPT ![r].pc = "done"]
    /\ loopOwner' = OwnerAfter(r, "done")
    /\ UNCHANGED <<previous_adjustments, taskFrame>>

\* A stitch job over up to MaxStitchVideos paths.
ManyStitchStart == StitchStartOf(MaxStitchVideos)

\* ------------------------------------------------------- the smoother alone
\* _get_smoothed_adjustment called on a processor that has run no job yet.
SmoothCall ==
    /\ UNCHANGED <<auxVars, response>>
    /\ op \in {"none", "smooth"}
    /\ pc = "idle"
    /\ Len(calls) < MaxCalls
    /\ \E f \in SmoothInputs :
        /\ previous_adjustments' = SmoothedHistory(previous_adjustments, f)
        /\ calls' = Append(calls, [frame |-> Len(calls) + 1, raw |-> f,
                        smoothed |-> GetSmoothedAdjustment(previous_adjustments, f)])
    /\ op' = "smooth"
    /\ UNCHANGED <<pc, lastRoute, routes, stale, jobVars>>

\* A video of over-exposed frames, processed without a fault.
BrightFrame == VideoFrameOf({220, 254}, {"none"}, MaxCalls)

\* A long video of well-exposed frames, processed without a fault.
LongFrame == VideoFrameOf({127}, {"none"}, MaxLongFrames)

\* -------------------------------------------------------- specifications
Next ==
    \/ VideoStart
    \/ VideoFrame
    \/ VideoEnd
    \/ StitchStart
    \/ StitchOpen
    \/ StitchFrame
    \/ StitchClose
    \/ StitchFinish
    \/ ImageJob
    \/ Respond
    \/ Reject

Spec == Init /\ [][Next]_vars

\* A step of an operation that is running: cap.read() and the statements up
\* to the next read or to the return.  The interpreter keeps executing.
JobStep ==
    \/ VideoFrame
    \/ VideoEnd
    \/ StitchOpen
    \/ StitchFrame
    \/ StitchClose
    \/ StitchFinish

FairSpec == Init /\ [][Next]_vars /\ WF_vars(JobStep)

SmoothNext ==
    \/ SmoothCall
    \/ VideoStart
    \/ BrightFrame
    \/ VideoEnd

SmoothSpec == Init /\ [][SmoothNext]_vars

\* Video jobs long enough to reach the progress report of every 100th frame.
LongNext ==
    \/ VideoStart
    \/ LongFrame
    \/ VideoEnd

LongSpec == Init /\ [][LongNext]_vars

\* One stitch job over a longer list of paths.
StitchNext ==
    \/ ManyStitchStart
    \/ StitchOpen
    \/ StitchFrame
    \/ StitchClose
    \/ StitchFinish

StitchSpec == Init /\ [][StitchNext]_vars

\* resize_frame applied to one frame and one target size.
ResizeInit ==
    /\ JobInit
    /\ wmShape = <<>>
    /\ wmRect = <<>>
    /\ tasks = [r \in Requests |-> [pc |-> "waiting", raws |-> <<>>]]
    /\ loopOwner = 0
    /\ rsArgs \in {<<w, h, t[1], t[2]>> : w \in ResizeWidths, h \in ResizeHeights,
                                          t \in ResizeTargets}
    /\ rsResult = <<>>

ResizeNext == ResizeCall

ResizeSpec == ResizeInit /\ [][ResizeNext]_vars

\* Several enhance_video requests arriving at one server process.
TaskNext ==
    \E r \in Requests :
        \/ TaskStart(r)
        \/ TaskFrame(r)
        \/ TaskEnd(r)

TaskSpec == Init /\ [][TaskNext]_vars

\* add_mansio_watermark applied to one frame of any shape in range.
WatermarkInit ==
    /\ JobInit
    /\ wmShape \in FrameWidths \X FrameHeights
    /\ wmRect = <<>>
    /\ tasks = [r \in Requests |-> [pc |-> "waiting", raws |-> <<>>]]
    /\ loopOwner = 0
    /\ rsArgs = <<>>
    /\ rsResult = <<>>

WatermarkNext == AddWatermarkCall

WatermarkSpec == WatermarkInit /\ [][WatermarkNext]_vars

\* ------------------------------------------------------------------ claims
VideoReturned == op = "video" /\ pc = "returned"

Succeeded == result.kind = "returned" /\ result.success

\* The raw factors of this job's smoother calls, in call order.
Raws == [i \in 1..Len(calls) |-> calls[i].raw]

\* The last min(n, window) of the first n raw factors.
WindowAt(n) ==
    LET lo == IF n > SMOOTHING_WINDOW THEN n - SMOOTHING_WINDOW + 1 ELSE 1
    IN SubSeq(Raws, lo, n)

\* C1: a video job that returns success has stored exactly one output frame per
\* frame read, the k-th stored frame being the processed k-th frame read.
C1_OrderedOutput ==
    (VideoReturned /\ Succeeded) =>
        /\ Len(written) = nread
        /\ \A k \in 1..Len(written) : written[k].src = <<1, k>>

\* C2: an exception while correcting or watermarking one frame does not end the
\* video job in failure.
C2_FrameFaultTolerated ==
    (VideoReturned /\ faulted \in {"correct_pre", "correct_post", "watermark"}) =>
        Succeeded

\* C3: when an input source could not be opened, the operation does not return
\* success and no frame is stored.
C3_OpenFailureFails ==
    (pc = "returned" /\ openFailed) =>
        /\ result.kind = "returned" => ~result.success
        /\ written = <<>>

\* C4: when the output could not be opened or written, the operation does not
\* return success.
C4_SinkFailureFails ==
    (pc = "returned" /\ ~sinkOk) => ~Succeeded

\* C5: every operation that ends hands its caller a (success, message) pair;
\* no exception escapes.
C5_AlwaysReturnsPair ==
    pc = "returned" => result.kind = "returned"

\* C6: the smoothing history never holds more than SMOOTHING_WINDOW entries.
C6_HistoryBounded ==
    Len(previous_adjustments) <= SMOOTHING_WINDOW

C6_Witness ==
    /\ op = "video"
    /\ Len(calls) > SMOOTHING_WINDOW
    /\ Len(previous_adjustments) = SMOOTHING_WINDOW

\* C7: the n-th smoother call returns the mean of the last min(n, window) raw
\* factors; after 1,1,1,1,1,2 it returns 6/5 and after one more 2 it returns 7/5.
C7_WindowMean ==
    /\ \A n \in 1..Len(calls) : calls[n].smoothed = Mean(WindowAt(n))
    /\ (Len(calls) >= 6 /\
          SubSeq(Raws, 1, 6) = <<<<1, 1>>, <<1, 1>>, <<1, 1>>, <<1, 1>>, <<1, 1>>, <<2, 1>>>>)
         => calls[6].smoothed = <<6, 5>>
    /\ Raws = <<<<1, 1>>, <<1, 1>>, <<1, 1>>, <<1, 1>>, <<1, 1>>, <<2, 1>>, <<2, 1>>>>
         => calls[7].smoothed = <<7, 5>>

C7_Witness ==
    /\ Raws = <<<<1, 1>>, <<1, 1>>, <<1, 1>>, <<1, 1>>, <<1, 1>>, <<2, 1>>, <<2, 1>>>>
    /\ calls[6].smoothed = <<6, 5>>
    /\ calls[7].smoothed = <<7, 5>>

\* C8: in a video job the smoother is called once for each frame routed to the
\* bright strategy, in frame order, and for no other frame; frames on the dark
\* and optimize strategies leave the history as it was.
C8_SmootherPerBrightFrame ==
    (op = "video" /\ ~openFailed) =>
        /\ \A i, j \in 1..Len(calls) : i < j => calls[i].frame < calls[j].frame
        /\ \A i \in 1..Len(calls) :
              /\ calls[i].frame \in 1..Len(routes)
              /\ routes[calls[i].frame] = "bright"
        /\ \A k \in 1..frame_count :
              routes[k] = "bright" => \E i \in 1..Len(calls) : calls[i].frame = k
        /\ previous_adjustments = WindowAt(Len(calls))

C8_Witness ==
    /\ op = "video"
    /\ frame_count = 3
    /\ routes = <<"bright", "dark", "bright">>
    /\ Len(calls) = 2
    /\ calls[2].frame = 3

\* C9: a video job starts from an empty history: whatever an earlier job left,
\* the history holds only this job's factors and each smoothed factor is the
\* mean of this job's own last factors.
C9_FreshHistoryPerJob ==
    (op = "video" /\ ~openFailed) =>
        /\ nread = 0 => previous_adjustments = <<>>
        /\ previous_adjustments = WindowAt(Len(calls))
        /\ \A n \in 1..Len(calls) : calls[n].smoothed = Mean(WindowAt(n))

C9_Witness ==
    /\ op = "video"
    /\ stale
    /\ ~openFailed
    /\ Len(calls) = 1
    /\ previous_adjustments = <<calls[1].raw>>

\* C10: the strategy is chosen by mean_brightness alone: dark below 80, bright
\* above 200 (video) or 130 (image), optimize otherwise, thresholds included.
C10_RouteByThresholds ==
    lastRoute # <<>> =>
        LET b == lastRoute[1]
            s == lastRoute[2]
            high == IF op = "image" THEN 130 ELSE 200
        IN /\ s \in {"dark", "bright", "optimize"}
           /\ s = "dark" <=> b < 80
           /\ s = "bright" <=> b > high
           /\ s = "optimize" <=> (80 <= b /\ b <= high)
           /\ b = 50 => s = "dark"
           /\ b = 127 => s = "optimize"
           /\ (b = 220 /\ op = "video") => s = "bright"

C10_Witness ==
    /\ op = "video"
    /\ lastRoute = <<200, "optimize">>
    /\ routes # <<>>

\* C11: no bright-strategy division TARGET_BRIGHTNESS / current_brightness is
\* made with current_brightness = 0: in a video job the divisor is the mean
\* lightness that was found above the high threshold, in the image job it is
\* the value mean of an image whose lightness mean is above the threshold.
C11_NonZeroDivisor ==
    \A i \in 1..Len(divisors) :
        /\ divisors[i] > 0
        /\ op = "video" => divisors[i] > BRIGHTNESS_HIGH_THRESHOLD

C11_Witness ==
    /\ op = "image"
    /\ lastRoute = <<131, "bright">>
    /\ divisors = <<1>>

\* C12: for every frame from 64x64 to 4096x2160 the rectangle of the watermark
\* overlay lies inside the frame: its top-left corner has no negative
\* coordinate and its bottom-right corner is within the width and the height.
C12_OverlayInsideFrame ==
    wmRect # <<>> =>
        /\ wmRect.x1 >= 0
        /\ wmRect.y1 >= 0
        /\ wmRect.x2 <= wmShape[1]
        /\ wmRect.y2 <= wmShape[2]

\* C13: progress reporting does not change the outcome of a job: a video job
\* in which no frame's processing raised returns success, whatever frame count
\* the source reported (0 included).
C13_ProgressHarmless ==
    (VideoReturned /\ ~openFailed /\ result.kind = "returned"
        /\ faulted \in {"none", "progress"}) => result.success

\* C14: when a video or stitch job returns, on whichever path (completion,
\* the early return on an input that does not open, an exception at a frame),
\* every capture the job opened, not only the last one, and its writer have
\* been released.
C14_HandlesReleased ==
    (pc = "returned" /\ op \in {"video", "stitch"} /\ result.kind = "returned") =>
        /\ \A i \in 1..Len(caps) : caps[i] # "open"
        /\ out # "open"

C14_Witness ==
    /\ op = "stitch"
    /\ pc = "returned"
    /\ result.kind = "returned"
    /\ faulted = "watermark"
    /\ caps = <<"released", "released">>
    /\ out = "released"

\* The output a request answered 200 points to is there and complete.
CompleteOutput ==
    /\ response.output = "present"
    /\ op = "video" => Len(written) = nread
    /\ op = "stitch" => ~openFailed /\ written # <<>>
    /\ op = "image" => written # <<>>

\* A failed request leaves no file at the output path.
FailedRequestLeavesNoOutput ==
    (pc = "responded" /\ response.status # 200) => response.output # "present"

\* C15: a request either succeeds and leaves a complete output, or fails and
\* leaves no file at the output path.
C15_AllOrNothing ==
    pc = "responded" =>
        IF response.status = 200 THEN CompleteOutput
        ELSE response.output # "present"

\* The last SMOOTHING_WINDOW factors of a request's job.
TaskWindow(raws) ==
    LET n == Len(raws)
    IN SubSeq(raws, IF n > SMOOTHING_WINDOW THEN n - SMOOTHING_WINDOW + 1 ELSE 1, n)

\* C16: the smoothing history of the shared VideoProcessor is never changed by
\* one job while another job is between two of its frames: at most one request
\* is inside process_video, and the history is that job's own window.
C16_NoConcurrentMutation ==
    \A r \in Requests :
        tasks[r].pc = "loop" =>
            /\ previous_adjustments = TaskWindow(tasks[r].raws)
            /\ \A q \in Requests \ {r} : tasks[q].pc # "loop"

C16_Witness ==
    /\ tasks[1].pc = "done"
    /\ Len(tasks[1].raws) = 2
    /\ tasks[2].pc = "loop"
    /\ Len(tasks[2].raws) = 1
    /\ previous_adjustments = tasks[2].raws

\* C17: add_mansio_watermark leaves the frame it is given unchanged: the
\* stitcher's last_frame is never a watermarked frame and no frame of a fade
\* is blended from one, so each frame of a fade bears the watermark once.
C17_WatermarkCopies ==
    op = "stitch" =>
        /\ last_frame # <<>> => last_frame.ops = <<"resize">>
        /\ \A k \in 1..Len(written) :
              written[k].fade >= 0 =>
                  written[k].ops = <<"resize", "fade", "watermark">>

C17_Witness ==
    /\ op = "stitch"
    /\ video_index = 1
    /\ last_frame # <<>>
    /\ last_frame.src = <<2, 1>>
    /\ Len(written) = TRANSITION_FRAMES + 2
    /\ written[2].fade = 0
    /\ written[2].from = <<1, 1>>

\* C18: every frame a video or stitch job writes, the frames of a fade
\* included, bears the watermark exactly once, drawn after the correction (or
\* the resize); the image job never draws it.
C18_WatermarkedOnce ==
    \A k \in 1..Len(written) :
        LET f == written[k] IN
        /\ op = "video" => f.ops = <<f.strat, "watermark">>
        /\ op = "stitch" =>
              /\ Watermarks(f) = 1
              /\ f.ops[1] = "resize"
              /\ f.ops[Len(f.ops)] = "watermark"
        /\ op = "image" => Watermarks(f) = 0

C18_Witness ==
    /\ op = "video"
    /\ pc = "returned"
    /\ Succeeded
    /\ Len(written) = 3
    /\ written[1].strat = "dark"
    /\ written[2].strat = "bright"
    /\ written[3].strat = "optimize"

\* An operation is inside process_video or process_videos.
InJob == pc \in {"loop", "s_next", "s_loop"}

\* C19: every video or stitch job over finite sources returns, and once it
\* has returned it reads no frame and writes none.
C19_JobTerminates ==
    /\ InJob ~> (pc = "returned")
    /\ [][pc = "returned" => (nread' = nread /\ written' = written)]_vars

C19_Witness ==
    /\ op = "stitch"
    /\ pc = "returned"
    /\ Succeeded
    /\ total_videos = 2
    /\ Len(caps) = 2
    /\ nread = MaxStitchFrames

\* C20: the success result of a video job and of a stitch job whose writer
\* stores frames carries a frame count equal to the number of frames written.
C20_CountMatchesWritten ==
    (pc = "returned" /\ Succeeded /\ op \in {"video", "stitch"} /\ sinkOk) =>
        result.count = Len(written)

\* The video job alone reports the number of frames it wrote.
VideoCountMatchesWritten ==
    (VideoReturned /\ Succeeded /\ sinkOk) => result.count = Len(written)

\* The frames of `written` that are no frames of a fade.
NonFade == SelectSeq(written, LAMBDA f : f.fade = -1)

\* <<v, 1>>, ..., <<v, n>>
FramesOf(v, n) == [i \in 1..n |-> <<v, i>>]

\* The frames videos 1..v delivered and passed on to the writer, in order:
\* those of the videos done with, then those of the video in use.
RECURSIVE Delivered(_)
Delivered(v) ==
    IF v = 0 THEN <<>>
    ELSE Delivered(v - 1) \o
         FramesOf(v, IF v <= Len(reads) THEN reads[v]
                     ELSE IF faulted \in {"resize", "fade", "watermark"} THEN nread - 1
                     ELSE nread)

\* (a, b) comes before (c, d) in the order of video_paths, then of reading.
SrcBefore(s, t) == s[1] < t[1] \/ (s[1] = t[1] /\ s[2] < t[2])

\* C21: a stitch job writes the frames of its videos in the order of
\* video_paths and, within a video, in read order; a video that does not open
\* contributes nothing and leaves the order of the others alone; an empty
\* list of paths returns failure and creates no writer.
C21_StitchOrder ==
    op = "stitch" =>
        /\ \A j, k \in 1..Len(NonFade) :
              j < k => SrcBefore(NonFade[j].src, NonFade[k].src)
        /\ \A k \in 1..Len(written) :
              /\ written[k].src[1] \in 1..Len(caps)
              /\ caps[written[k].src[1]] # "unopened"
        /\ sinkOk =>
              [k \in 1..Len(NonFade) |-> NonFade[k].src] = Delivered(Len(caps))
        /\ total_videos = 0 =>
              /\ out = "none"
              /\ written = <<>>
              /\ result = Returned(FALSE, "No video paths provided", 0)

C21_Witness ==
    /\ op = "stitch"
    /\ pc = "returned"
    /\ Succeeded
    /\ caps = <<"released", "unopened", "released">>
    /\ reads = <<1, 0, 2>>
    /\ Len(NonFade) = 3
    /\ NonFade[3].src = <<3, 2>>

\* How many videos taken so far delivered at least one frame.
WithFrames == Cardinality({v \in 1..Len(reads) : reads[v] > 0})

RECURSIVE SumOf(_)
SumOf(s) == IF s = <<>> THEN 0 ELSE Head(s) + SumOf(Tail(s))

C23_StatusKept ==
    pc = "responded" =>
        /\ op = "rejected" => response.status = 400
        /\ response.chosen # 0 => response.status = response.chosen

\* C24: for every frame of positive width and height and every positive
\* target size resize_frame returns a frame of exactly the target size: the
\* scaled content is at least one pixel and at most the target on each side,
\* no padding is negative, and content plus paddings make up the target.
C24_ResizeExact ==
    rsResult # <<>> =>
        LET r == rsResult.plan IN
        /\ ~rsResult.raised
        /\ rsResult.width = rsArgs[3]
        /\ rsResult.height = rsArgs[4]
        /\ r.new_width \in 1..rsArgs[3]
        /\ r.new_height \in 1..rsArgs[4]
        /\ r.top >= 0 /\ r.bottom >= 0 /\ r.left >= 0 /\ r.right >= 0
        /\ r.top + r.bottom = rsArgs[4] - r.new_height
        /\ r.left + r.right = rsArgs[3] - r.new_width

\* When neither scaled side is empty the frame returned has the target size.
ResizeExactWhenNotEmpty ==
    (rsResult # <<>> /\ ~rsResult.raised) =>
        LET r == rsResult.plan IN
        /\ rsResult.width = rsArgs[3]
        /\ rsResult.height = rsArgs[4]
        /\ r.new_width \in 1..rsArgs[3]
        /\ r.new_height \in 1..rsArgs[4]
        /\ r.top >= 0 /\ r.bottom >= 0 /\ r.left >= 0 /\ r.right >= 0

\* resize_frame raises only where the exact scaled side is below one pixel.
ResizeRaisesOnlyWhenEmpty ==
    (rsResult # <<>> /\ rsResult.raised) =>
        IF rsArgs[1] * rsArgs[4] > rsArgs[2] * rsArgs[3]
        THEN rsArgs[3] * rsArgs[2] < rsArgs[1]
        ELSE rsArgs[4] * rsArgs[1] < rsArgs[2]

\* A factor strictly between 0 and TARGET_BRIGHTNESS / BRIGHTNESS_HIGH_THRESHOLD.
BelowThresholdRatio(f) ==
    /\ f[2] > 0
    /\ f[1] > 0
    /\ f[1] * BRIGHTNESS_HIGH_THRESHOLD < TARGET_BRIGHTNESS * f[2]

\* v * factor clipped to 0..255 is v * factor itself for every value v of 0..255.
NeedsNoClamp(f) ==
    /\ f[2] > 0
    /\ \A v \in {0, 1, 128, 255} : v * f[1] >= 0 /\ v * f[1] <= 255 * f[2]

\* C25: in a video job every raw factor passed to the smoother and every
\* smoothed factor applied to a frame is strictly greater than 0 and strictly
\* less than TARGET_BRIGHTNESS / BRIGHTNESS_HIGH_THRESHOLD (127/200): the
\* bright strategy only darkens, and the scaled value never passes 255.
C25_FactorBelowThresholdRatio ==
    op = "video" =>
        \A i \in 1..Len(calls) :
            /\ BelowThresholdRatio(calls[i].raw)
            /\ BelowThresholdRatio(calls[i].smoothed)
            /\ calls[i].smoothed[1] < calls[i].smoothed[2]
            /\ NeedsNoClamp(calls[i].smoothed)

C25_Witness ==
    /\ op = "video"
    /\ Len(calls) = 3
    /\ Raws = <<ReductionFactor(220), ReductionFactor(254), ReductionFactor(254)>>
    /\ calls[3].smoothed # calls[3].raw
    /\ BelowThresholdRatio(calls[3].smoothed)

====
